---- MODULE Spec2Model ----
(***************************************************************************)
(* Model of @manyducksco/stator: createStore(fn) -> [Provider, useStore].  *)
(*                                                                         *)
(* src/src/stator.ts is the store built on useSyncExternalStore (a Store   *)
(* object per Provider instance, a listener set, a per-subscriber cache).  *)
(* src/main.ts is the context-value variant whose hook takes               *)
(* { equals } options.  The two are modelled side by side: Spec drives the *)
(* stator.ts store, SpecMain the main.ts hook, SpecEquals the pure         *)
(* comparison function _equals.                                            *)
(***************************************************************************)
EXTENDS Integers, Sequences, FiniteSets, TLC

(***************************************************************************)
(* Bounds of the model.                                                    *)
(***************************************************************************)
\* Re-evaluations that produce a new snapshot, counted over the Provider
\* instances in the tree.
MaxPubs == 2
\* Longest array the comparison function is tried on.
MaxArrLen == 2

Providers == {1, 2}
Subs == {1, 2}

(***************************************************************************)
(* JavaScript values.  A value is a record of one shape; reference types   *)
(* (function, array, object) carry the identity `ref` of their allocation, *)
(* primitives carry NoRef.  An object keeps its own enumerable keys in     *)
(* insertion order with the values in `items` next to them; an array keeps *)
(* its elements in `items`.                                                *)
(***************************************************************************)
NoRef == <<0, 0>>

Val(t, ref, n, s, ctor, keys, items) ==
    [t |-> t, ref |-> ref, n |-> n, s |-> s, ctor |-> ctor, keys |-> keys, items |-> items]

Undefined == Val("undefined", NoRef, 0, "", "", <<>>, <<>>)
Null == Val("null", NoRef, 0, "", "", <<>>, <<>>)
Num(n) == Val("number", NoRef, n, "", "", <<>>, <<>>)
Str(s) == Val("string", NoRef, 0, s, "", <<>>, <<>>)
Fn(ref) == Val("function", ref, 0, "", "Function", <<>>, <<>>)
Arr(ref, items) == Val("array", ref, 0, "", "Array", <<>>, items)
Obj(ref, keys, items) == Val("object", ref, 0, "", "Object", keys, items)
\* An instance of a class without own enumerable keys (Date, Map, Set):
\* its content `n` lives in internal slots.
Instance(ref, ctor, n) == Val("object", ref, n, "", ctor, <<>>, <<>>)

IsRef(v) == v.t \in {"function", "array", "object"}

\* typeof v
Typeof(v) ==
    CASE v.t = "null" -> "object"
      [] v.t = "array" -> "object"
      [] OTHER -> v.t

\* Array.isArray(v)
IsArray(v) == v.t = "array"

\* Object.is(a, b): identity for reference types, value for primitives.
ObjectIs(a, b) ==
    IF IsRef(a) /\ IsRef(b) THEN a.ref = b.ref
    ELSE IF IsRef(a) \/ IsRef(b) THEN FALSE
    ELSE a = b

\* Object.keys(o): the indices of an array, the own enumerable keys of an
\* object, nothing for a function.
IndexKeys == <<"0", "1", "2", "3", "4", "5">>
ObjectKeys(o) == IF IsArray(o) THEN SubSeq(IndexKeys, 1, Len(o.items)) ELSE o.keys

\* Object.prototype.hasOwnProperty.call(o, key)
HasOwn(o, key) == \E i \in 1..Len(ObjectKeys(o)) : ObjectKeys(o)[i] = key

\* o[key]; undefined when the key is absent (or o holds no keys at all).
Get(o, key) ==
    IF HasOwn(o, key)
    THEN o.items[CHOOSE i \in 1..Len(ObjectKeys(o)) : ObjectKeys(o)[i] = key]
    ELSE Undefined

\* _equals(a, b): shallow Object.is comparison.
_equals(a, b) ==
    IF ObjectIs(a, b) THEN TRUE
    ELSE IF Typeof(a) # "object" \/ a.t = "null" \/ Typeof(b) # "object" \/ b.t = "null"
    THEN FALSE
    ELSE IF IsArray(a)
    THEN IF ~IsArray(b) \/ Len(a.items) # Len(b.items)
         THEN FALSE
         ELSE \A i \in 1..Len(a.items) : ObjectIs(a.items[i], b.items[i])
    ELSE IF a.ctor # b.ctor
    THEN FALSE
    ELSE IF Len(ObjectKeys(a)) # Len(ObjectKeys(b))
    THEN FALSE
    ELSE \A i \in 1..Len(ObjectKeys(a)) :
            HasOwn(b, ObjectKeys(a)[i]) /\ ObjectIs(a.items[i], Get(b, ObjectKeys(a)[i]))

(***************************************************************************)
(* class Store<T>: the listener set is a JavaScript Set, kept here as the  *)
(* sequence of its entries in insertion order.                             *)
(***************************************************************************)
SeqRange(q) == {q[i] : i \in 1..Len(q)}

\* A listener collection that is an array: add is a push.
Store_subscribe_push(ls, l) == Append(ls, l)

\* this.listeners.add(listener)
Store_subscribe(ls, l) == IF l \in SeqRange(ls) THEN ls ELSE Append(ls, l)

\* An unsubscribe function that forgets to delete.
Store_unsubscribe_noop(ls, l) == ls

\* the function subscribe returns: () => this.listeners.delete(listener)
Store_unsubscribe(ls, l) == SelectSeq(ls, LAMBDA x : x # l)

\* An update that leaves the store with the value it had.
Store_update_lost(values, st, v) == values

\* update(value): this.value = value, on the store object st.
Store_update(values, st, v) == [values EXCEPT ![st] = v]

\* get = () => this.value, on the store object st.
Store_get(values, st) == values[st]

(***************************************************************************)
(* createStore: the context, the producer of the test store, selectors.    *)
(***************************************************************************)
\* The EMPTY symbol; store objects are named by the Provider slot owning them.
EMPTY == 0

\* One storeRef shared by all Provider instances (a module-level store).
StoreOf_shared(p) == 1

\* const storeRef = useRef<Store<Value>>(null): one store per Provider instance.
StoreOf(p) == p

\* createContext(new Store(...)) in place of createContext(EMPTY).
\* useRef<Store<Value>>(null): the ref before the first render.
NullRef == -1

\* A Provider that constructs a Store at every render.
CreatesStore_always(current) == TRUE

\* if (!storeRef.current): the Provider constructs a Store, else it updates
\* the one it has.
CreatesStore(current) == current = NullRef

ContextDefault_store == StoreOf(1)

\* createContext<Store<Value> | typeof EMPTY>(EMPTY): what useContext gives
\* outside every Provider.
ContextDefault == EMPTY

\* props.options of the Providers rendered: the tests' wrapper without options.
OptionsSet == {Undefined}

\* A Provider that calls fn() without its options.
ForwardOptions_none(options) == Undefined

\* fn(props.options): the argument expression of the producer call.
ForwardOptions(options) == options

\* Options objects a host passes, as the tests' wrapper does.
OptionsGiven ==
    {Undefined,
     Obj(<<40, 1>>, <<"initialCount">>, <<Num(1)>>),
     Obj(<<40, 2>>, <<"initialCount", "initialText">>, <<Num(1), Str("initialized")>>)}

\* useState(options?.initialCount ?? 0), useState(options?.initialText ?? "hello")
InitialHookState(options) ==
    [count |-> IF HasOwn(options, "initialCount") THEN Get(options, "initialCount").n ELSE 0,
     text |-> IF HasOwn(options, "initialText") THEN Get(options, "initialText").s ELSE "hello"]

\* The state-producing function of the test store:
\*   { count, text, increment, updateText }
\* with increment and updateText made once per Provider instance by
\* useCallback(..., []).
Producer(p, hs, ref) ==
    Obj(ref, <<"count", "text", "increment", "updateText">>,
        <<Num(hs.count), Str(hs.text), Fn(<<10 + p, 0>>), Fn(<<20 + p, 0>>)>>)

NoSelect == "none"

\* The components rendered in tree h.  Under one Provider, slot 1 is a
\* display component (the whole state, the count, or [count, increment]) and
\* slot 2 a control component (increment, [text, updateText],
\* [updateText, text], or { text }); under two sibling Providers, slot 1
\* reads the whole state or [count, increment] and slot 2 the count; in the
\* tree with slot 2 outside, slot 1 shows the count as a number, as
\* [count, increment] or as new Date(count).
SelectorsOf(h, s) ==
    IF h = <<1, 2>>
    THEN IF s = 1 THEN {NoSelect, "countInc"} ELSE {"count"}
    ELSE IF h = <<1, 0>>
    THEN IF s = 1 THEN {"count", "countInc", "countDate"} ELSE {NoSelect}
    ELSE IF s = 1 THEN {NoSelect, "count", "countInc"}
         ELSE {"increment", "textUpd", "updText", "objText"}

\* select(root) for the selectors of the tests and the README; `fresh` is the
\* identity of the array or object the call allocates.
Select(select, root, fresh) ==
    CASE select = "count" -> Get(root, "count")
      [] select = "increment" -> Get(root, "increment")
      [] select = "countInc" -> Arr(fresh, <<Get(root, "count"), Get(root, "increment")>>)
      [] select = "textUpd" -> Arr(fresh, <<Get(root, "text"), Get(root, "updateText")>>)
      [] select = "updText" -> Arr(fresh, <<Get(root, "updateText"), Get(root, "text")>>)
      [] select = "objText" -> Obj(fresh, <<"text">>, <<Get(root, "text")>>)
      [] select = "countDate" -> Instance(fresh, "Date", Get(root, "count").n)
      [] OTHER -> root

\* snapshotRef.current: null, or { root, selected }.
NullCache == [set |-> FALSE, root |-> Undefined, selected |-> Undefined]
Cache(root, selected) == [set |-> TRUE, root |-> root, selected |-> selected]

\* getSnapshot without the equality bail-out: every new root is rerenders.
getSnapshot_noEquals(root, select, prev, fresh) ==
    IF select = NoSelect
    THEN [ret |-> root, cache |-> prev, ran |-> FALSE]
    ELSE IF prev.set /\ ObjectIs(prev.root, root)
    THEN [ret |-> prev.selected, cache |-> prev, ran |-> FALSE]
    ELSE LET selected == Select(select, root, fresh)
         IN  [ret |-> selected, cache |-> Cache(root, selected), ran |-> TRUE]

\* getSnapshot that suppresses whenever a previous projection exists.
getSnapshot_alwaysEqual(root, select, prev, fresh) ==
    IF select = NoSelect
    THEN [ret |-> root, cache |-> prev, ran |-> FALSE]
    ELSE IF prev.set /\ ObjectIs(prev.root, root)
    THEN [ret |-> prev.selected, cache |-> prev, ran |-> FALSE]
    ELSE LET selected == Select(select, root, fresh)
         IN  IF prev.set
             THEN [ret |-> prev.selected, cache |-> Cache(root, prev.selected), ran |-> TRUE]
             ELSE [ret |-> selected, cache |-> Cache(root, selected), ran |-> TRUE]

\* getSnapshot that caches the store value for the no-selector hook as well.
getSnapshot_cachedRoot(root, select, prev, fresh) ==
    IF select = NoSelect
    THEN IF prev.set
         THEN [ret |-> prev.root, cache |-> prev, ran |-> FALSE]
         ELSE [ret |-> root, cache |-> Cache(root, root), ran |-> FALSE]
    ELSE IF prev.set /\ ObjectIs(prev.root, root)
    THEN [ret |-> prev.selected, cache |-> prev, ran |-> FALSE]
    ELSE LET selected == Select(select, root, fresh)
         IN  IF prev.set /\ _equals(selected, prev.selected)
             THEN [ret |-> prev.selected, cache |-> Cache(root, prev.selected), ran |-> TRUE]
             ELSE [ret |-> selected, cache |-> Cache(root, selected), ran |-> TRUE]

\* A getSnapshot that runs the selector at every call.
getSnapshot_alwaysSelect(root, select, prev, fresh) ==
    IF select = NoSelect
    THEN [ret |-> root, cache |-> prev, ran |-> FALSE]
    ELSE LET selected == Select(select, root, fresh)
         IN  IF prev.set /\ _equals(selected, prev.selected)
             THEN [ret |-> prev.selected, cache |-> Cache(root, prev.selected), ran |-> TRUE]
             ELSE [ret |-> selected, cache |-> Cache(root, selected), ran |-> TRUE]

\* A getSnapshot that leaves the cache as it is when the new projection
\* equals the cached one.
getSnapshot_keepRoot(root, select, prev, fresh) ==
    IF select = NoSelect
    THEN [ret |-> root, cache |-> prev, ran |-> FALSE]
    ELSE IF prev.set /\ ObjectIs(prev.root, root)
    THEN [ret |-> prev.selected, cache |-> prev, ran |-> FALSE]
    ELSE LET selected == Select(select, root, fresh)
         IN  IF prev.set /\ _equals(selected, prev.selected)
             THEN [ret |-> prev.selected, cache |-> prev, ran |-> TRUE]
             ELSE [ret |-> selected, cache |-> Cache(root, selected), ran |-> TRUE]

\* useStore's getSnapshot closure: root is store.get(), prev is
\* snapshotRef.current.  ret is the value returned, cache the new
\* snapshotRef.current, ran whether select was invoked.
getSnapshot(root, select, prev, fresh) ==
    IF select = NoSelect
    THEN [ret |-> root, cache |-> prev, ran |-> FALSE]
    ELSE IF prev.set /\ ObjectIs(prev.root, root)
    THEN [ret |-> prev.selected, cache |-> prev, ran |-> FALSE]
    ELSE LET selected == Select(select, root, fresh)
         IN  IF prev.set /\ _equals(selected, prev.selected)
             THEN [ret |-> prev.selected, cache |-> Cache(root, prev.selected), ran |-> TRUE]
             ELSE [ret |-> selected, cache |-> Cache(root, selected), ran |-> TRUE]

UsageError == "Component must be wrapped with a store <Provider>"

(***************************************************************************)
(* State.                                                                  *)
(***************************************************************************)
VARIABLES
    home,           \* the tree: per consumer slot, the Provider it sits under (0: none)
    hostOptions,    \* the values the host passes as the options prop
    keepsReaders,   \* whether host code keeps the closures of removed consumers to call them
    spied,          \* whether the selectors count their calls, as the tests' selectSpy does
    props,          \* per Provider slot, props.options of its last render
    fnArg,          \* per Provider slot, the argument of the last call of fn
    \* per Provider slot p
    provMounted,    \* the Provider instance is in the tree
    storeRef,       \* storeRef.current: the Store object of the instance, or NullRef
    storesMade,     \* the Store objects the instance has constructed
    hookState,      \* the producer's useState cells [count, text]
    pubs,           \* snapshots the instance has allocated (its first included)
    value,          \* const value = fn(props.options) of the last render
    effectDeps,     \* deps [value] of the last run of the layout effect
    layoutPending,  \* the instance rendered and its commit has not run yet
    \* per Store object st
    storeValue,     \* Store.value
    listeners,      \* Store.listeners, in insertion order
    \* per consumer slot s
    mounted,        \* the consumer component is in the tree
    ctx,            \* what useContext(Context) gave its hook
    sel,            \* the selector it passes to useStore
    snapshotRef,    \* snapshotRef.current
    returned,       \* what useStore returned at its last render
    error,          \* the message of the error its last useStore call threw, or ""
    subscribed,     \* useSyncExternalStore has subscribed its listener
    unsubHeld,      \* an unsubscribe function for its listener is still held
    needsRender,    \* a re-render of it has been signalled and not yet run
    \* history
    prevValue,      \* per Store, the value it held before its last update
    tracked,        \* per consumer, it had rendered when its store last published
    rerenders,      \* its renders since then that its listener had asked for or
                    \* that returned a new reference
    lastNotified,   \* per consumer, the calls of its listener in the last notify()
    lastRead,       \* per consumer, the snapshot its listener read in the last notify()
    cancelled,      \* per consumer slot: removed while a notification of its store was due
    selectCalls,    \* per consumer, the calls of its selector since its mount (when spied)
    newPubs,        \* per consumer, the new snapshots its store got since its mount (when spied)
    lastCall,       \* the call of subscribe or unsubscribe the last step repeated, if any
    \* the comparison function on its own
    eqA, eqB,       \* the two values _equals is applied to
    eqResult,       \* "none", or what _equals(eqA, eqB) returned
    \* src/main.ts: the context-value store and one consumer of it
    mProvided,      \* a Provider is in the tree
    mCount,         \* the producer's useState cell
    mPubs,          \* values the Provider has published
    mValue,         \* the value of Context.Provider
    mMounted,       \* the consumer is in the tree
    mSelect,        \* its select argument
    mOptions,       \* its options argument
    mSeen,          \* the context value of its last render
    mBlop,          \* useState(false)
    mSelected,      \* selected.current
    mEffectPending, \* its effect is due: the first render, or [value] changed
    mMemo,          \* useMemo: [deps |-> blop, val |-> selected.current then]
    mReturned,      \* what the hook returned at its last render
    mError,         \* the message of the error its last call threw, or ""
    mLastEquals     \* the call of equals in the last step, if any: the function
                    \* called, the arguments a and b it got, its result

provVars == <<provMounted, storeRef, storesMade, hookState, pubs, value, effectDeps, layoutPending>>
storeVars == <<storeValue, listeners>>
subVars == <<mounted, ctx, sel, snapshotRef, returned, error, subscribed,
             unsubHeld, needsRender>>
histVars == <<prevValue, tracked, rerenders, lastNotified, lastRead, cancelled,
              selectCalls, newPubs, lastCall>>
eqVars == <<eqA, eqB, eqResult>>
mainVars == <<mProvided, mCount, mPubs, mValue, mMounted, mSelect, mOptions, mSeen, mBlop,
              mSelected, mEffectPending, mMemo, mReturned, mError, mLastEquals>>
optVars == <<hostOptions, keepsReaders, spied, props, fnArg>>
vars == <<home, optVars, provVars, storeVars, subVars, histVars, eqVars, mainVars>>

NoCalls == [s \in Subs |-> 0]

NoReads == [s \in Subs |-> Undefined]

NoneCancelled == [s \in Subs |-> FALSE]

\* The hook cells of a Provider instance that is not mounted.
NoHookState == [count |-> 0, text |-> "hello"]

NoCall == [op |-> "", s |-> 0]

\* The trees tried: both consumers under one Provider; one consumer under
\* each of two sibling Providers; one consumer outside every Provider.
Trees == {<<1, 1>>, <<1, 2>>, <<0, 1>>}

InitStoreWith(h, given, kept, spy) ==
    /\ home = h
    /\ hostOptions = given
    /\ keepsReaders = kept
    /\ spied = spy
    /\ props = [p \in Providers |-> Undefined]
    /\ fnArg = [p \in Providers |-> Undefined]
    /\ provMounted = [p \in Providers |-> FALSE]
    /\ storeRef = [p \in Providers |-> NullRef]
    /\ storesMade = [p \in Providers |-> 0]
    /\ hookState = [p \in Providers |-> NoHookState]
    /\ pubs = [p \in Providers |-> 0]
    /\ value = [p \in Providers |-> Undefined]
    /\ effectDeps = [p \in Providers |-> Undefined]
    /\ layoutPending = [p \in Providers |-> FALSE]
    /\ storeValue = [p \in Providers |-> Undefined]
    /\ listeners = [p \in Providers |-> <<>>]
    /\ mounted = [s \in Subs |-> FALSE]
    /\ ctx = [s \in Subs |-> EMPTY]
    /\ sel = [s \in Subs |-> NoSelect]
    /\ snapshotRef = [s \in Subs |-> NullCache]
    /\ returned = [s \in Subs |-> Undefined]
    /\ error = [s \in Subs |-> ""]
    /\ subscribed = [s \in Subs |-> FALSE]
    /\ unsubHeld = [s \in Subs |-> FALSE]
    /\ needsRender = [s \in Subs |-> FALSE]
    /\ tracked = [s \in Subs |-> FALSE]
    /\ prevValue = [p \in Providers |-> Undefined]
    /\ rerenders = [s \in Subs |-> 0]
    /\ lastNotified = NoCalls
    /\ lastRead = NoReads
    /\ cancelled = NoneCancelled
    /\ selectCalls = NoCalls
    /\ newPubs = NoCalls
    /\ lastCall = NoCall

InitStoreAt(h) == InitStoreWith(h, OptionsSet, FALSE, FALSE)

\* The identity of the array or object the selector of consumer s allocates
\* when run on root.  A consumer runs its selector once per root it reads
\* (the cache answers every later read of that root), so the consumer and
\* the root name the allocation.
FreshOf(s, root) == <<100 * s + root.ref[1], root.ref[2]>>

RECURSIVE Sum(_, _)
Sum(f, S) == IF S = {} THEN 0 ELSE LET x == CHOOSE y \in S : TRUE IN f[x] + Sum(f, S \ {x})

\* New snapshots the mounted Provider instances have published after their
\* first.
Republished == Sum([p \in Providers |-> IF pubs[p] > 0 THEN pubs[p] - 1 ELSE 0], Providers)

\* The consumers holding store st that are in the tree.
ConsumersOf(st) == {s \in Subs : mounted[s] /\ ctx[s] = st}

\* React renders one pass at a time and starts the next event's render only
\* after the commit, the effects and the synchronous re-renders of the pass
\* before it: no layout effect is due, every consumer in the tree is
\* subscribed and none has a re-render outstanding.
Idle ==
    /\ \A p \in Providers : ~layoutPending[p]
    /\ \A s \in Subs : mounted[s] => subscribed[s] /\ ~needsRender[s]

(***************************************************************************)
(* Provider.                                                               *)
(***************************************************************************)
\* The count n of a spied selector after a call of getSnapshot that did or
\* did not run it.
Spy(n, ran) == IF spied /\ ran THEN n + 1 ELSE n

\* History kept at a publication of store st: the value it replaces, and
\* which consumers had rendered that value.
Publish(st) ==
    /\ prevValue' = [prevValue EXCEPT ![st] = storeValue[st]]
    /\ tracked' = [s \in Subs |-> IF s \in ConsumersOf(st) THEN TRUE ELSE tracked[s]]
    /\ rerenders' = [s \in Subs |-> IF s \in ConsumersOf(st) THEN 0 ELSE rerenders[s]]

\* First render of a Provider instance: fn(props.options), new Store(value),
\* and the layout effect is due at the commit.
ProviderMount(p) ==
    /\ ~provMounted[p]
    /\ p \in SeqRange(home)
    /\ Idle
    /\ \E options \in hostOptions :
        LET arg == ForwardOptions(options)
            hs == InitialHookState(arg)
            gen == 1
            v == Producer(p, hs, <<p, gen>>)
            st == StoreOf(p)
        IN  /\ props' = [props EXCEPT ![p] = options]
            /\ fnArg' = [fnArg EXCEPT ![p] = arg]
            /\ hookState' = [hookState EXCEPT ![p] = hs]
            /\ pubs' = [pubs EXCEPT ![p] = gen]
            /\ value' = [value EXCEPT ![p] = v]
            /\ CreatesStore(storeRef[p])
            /\ storeRef' = [storeRef EXCEPT ![p] = st]
            /\ storesMade' = [storesMade EXCEPT ![p] = @ + 1]
            /\ storeValue' = [storeValue EXCEPT ![st] = v]
            /\ listeners' = [listeners EXCEPT ![st] = <<>>]
            /\ Publish(st)
    /\ provMounted' = [provMounted EXCEPT ![p] = TRUE]
    /\ effectDeps' = [effectDeps EXCEPT ![p] = Undefined]
    /\ layoutPending' = [layoutPending EXCEPT ![p] = TRUE]
    /\ lastCall' = NoCall
    /\ UNCHANGED <<home, hostOptions, keepsReaders, spied, subVars>>
    /\ lastNotified' = NoCalls
    /\ lastRead' = NoReads
    /\ cancelled' = NoneCancelled
    /\ UNCHANGED <<selectCalls, newPubs>>
    /\ UNCHANGED <<eqVars, mainVars>>

\* What the host may do to the producer's state before a re-evaluation:
\* increment(), updateText("updated") as the tests' buttons do, or nothing
\* (a re-render for another reason), and then the producer returns a new
\* object, or - "same" - the object it returned last time (a producer that
\* memoizes its result).
Events == {"increment", "updateText", "rerender", "same"}

NextHookState(hs, ev) ==
    CASE ev = "increment" -> [hs EXCEPT !.count = @ + 1]
      [] ev = "updateText" -> [hs EXCEPT !.text = "updated"]
      [] OTHER -> hs

\* A re-evaluation of a mounted Provider: fn(props.options),
\* storeRef.current.update(value); the layout effect is due when value is
\* not the value of its last run.
ProviderRender(p) ==
    /\ provMounted[p]
    /\ Idle
    /\ \E ev \in Events, options \in hostOptions :
        LET arg == ForwardOptions(options)
            hs == NextHookState(hookState[p], ev)
            st == StoreOf(p)
            n == IF ev = "same" THEN pubs[p] ELSE pubs[p] + 1
            v == IF ev = "same" THEN value[p] ELSE Producer(p, hs, <<p, n>>)
        IN  /\ (ev # "same" => Republished < MaxPubs)
            /\ ev = "updateText" => hs # hookState[p]
            /\ props' = [props EXCEPT ![p] = options]
            /\ fnArg' = [fnArg EXCEPT ![p] = arg]
            /\ hookState' = [hookState EXCEPT ![p] = hs]
            /\ pubs' = [pubs EXCEPT ![p] = n]
            /\ value' = [value EXCEPT ![p] = v]
            /\ IF CreatesStore(storeRef[p])
               THEN /\ storesMade' = [storesMade EXCEPT ![p] = @ + 1]
                    /\ storeValue' = [storeValue EXCEPT ![st] = v]
                    /\ listeners' = [listeners EXCEPT ![st] = <<>>]
               ELSE /\ storesMade' = storesMade
                    /\ storeValue' = Store_update(storeValue, st, v)
                    /\ listeners' = listeners
            /\ layoutPending' = [layoutPending EXCEPT ![p] = ~ObjectIs(v, effectDeps[p])]
            /\ Publish(st)
            /\ newPubs' = [s \in Subs |->
                              IF spied /\ s \in ConsumersOf(st) /\ ~ObjectIs(v, storeValue[st])
                              THEN newPubs[s] + 1 ELSE newPubs[s]]
    /\ lastCall' = NoCall
    /\ lastNotified' = NoCalls
    /\ lastRead' = NoReads
    /\ cancelled' = NoneCancelled
    /\ UNCHANGED selectCalls
    /\ UNCHANGED <<home, hostOptions, keepsReaders, spied, provMounted, storeRef, effectDeps, subVars>>
    /\ UNCHANGED <<eqVars, mainVars>>

\* A listener whose cache is one cell shared by all consumers.
handleStoreChange_shared(s, root, acc) ==
    LET snap == getSnapshot(root, sel[s], acc.cache[s], FreshOf(s, root))
    IN  [cache |-> [o \in Subs |-> snap.cache],
         need |-> [acc.need EXCEPT ![s] = @ \/ (mounted[s] /\ ~ObjectIs(snap.ret, returned[s]))],
         calls |-> [acc.calls EXCEPT ![s] = @ + 1],
         read |-> [acc.read EXCEPT ![s] = root],
         selects |-> [acc.selects EXCEPT ![s] = Spy(@, snap.ran)],
         ran |-> acc.ran \/ snap.ran]

\* A listener that asks for a re-render on every notification.
handleStoreChange_always(s, root, acc) ==
    LET snap == getSnapshot(root, sel[s], acc.cache[s], FreshOf(s, root))
    IN  [cache |-> [acc.cache EXCEPT ![s] = snap.cache],
         need |-> [acc.need EXCEPT ![s] = TRUE],
         calls |-> [acc.calls EXCEPT ![s] = @ + 1],
         read |-> [acc.read EXCEPT ![s] = root],
         selects |-> [acc.selects EXCEPT ![s] = Spy(@, snap.ran)],
         ran |-> acc.ran \/ snap.ran]

\* The listener useSyncExternalStore registers for consumer s: it reads
\* getSnapshot() and asks for a re-render when the value is not the one the
\* consumer rendered.  (a and snap stand for acc and the result of
\* getSnapshot(), each evaluated once.)
handleStoreChange(s, root, acc) ==
    CHOOSE next \in
        {[cache |-> [a.cache EXCEPT ![s] = snap.cache],
          need |-> [a.need EXCEPT ![s] = @ \/ (mounted[s] /\ ~ObjectIs(snap.ret, returned[s]))],
          calls |-> [a.calls EXCEPT ![s] = @ + 1],
          read |-> [a.read EXCEPT ![s] = root],
          selects |-> [a.selects EXCEPT ![s] = Spy(@, snap.ran)],
          ran |-> a.ran \/ snap.ran] :
            <<a, snap>> \in {<<acc, getSnapshot(root, sel[s], acc.cache[s], FreshOf(s, root))>>}} : TRUE

\* A notify() that stops after its first listener.
notify_first(ls, root, acc) ==
    IF ls = <<>> THEN acc ELSE handleStoreChange(Head(ls), root, acc)

\* notify(): this.listeners.forEach((listener) => listener())
RECURSIVE notify(_, _, _)
notify(ls, root, acc) ==
    IF ls = <<>> THEN acc
    ELSE notify(Tail(ls), root, handleStoreChange(Head(ls), root, acc))

\* The commit of a Provider render whose value changed: the layout effect
\* calls storeRef.current.notify().
ProviderCommit(p) ==
    /\ provMounted[p]
    /\ layoutPending[p]
    /\ \E acc \in {notify(listeners[StoreOf(p)], Store_get(storeValue, StoreOf(p)),
                         [cache |-> snapshotRef, need |-> needsRender,
                          calls |-> NoCalls, read |-> NoReads, selects |-> selectCalls,
                          ran |-> FALSE])} :
           /\ snapshotRef' = acc.cache
           /\ needsRender' = acc.need
           /\ lastNotified' = acc.calls
           /\ lastRead' = acc.read
           /\ UNCHANGED cancelled
           /\ selectCalls' = acc.selects
           /\ UNCHANGED newPubs
           /\ lastCall' = NoCall
    /\ effectDeps' = [effectDeps EXCEPT ![p] = value[p]]
    /\ layoutPending' = [layoutPending EXCEPT ![p] = FALSE]
    /\ UNCHANGED <<home, provMounted, storeRef, storesMade, hookState, pubs, value, storeVars,
                   mounted, ctx, sel, returned, error, subscribed, unsubHeld,
                   prevValue, tracked, rerenders>>
    /\ UNCHANGED <<optVars, eqVars, mainVars>>

(***************************************************************************)
(* useStore.                                                               *)
(***************************************************************************)
\* useContext(Context) for a component rendered under Provider `where`
\* (0: under none).
useContext(where) == IF where = 0 THEN ContextDefault ELSE StoreOf(where)

\* A component calling useStore(select) is rendered for the first time, under
\* a mounted Provider or under none.  Outside a Provider the hook throws and
\* the component never mounts.
ConsumerMount(s) ==
    /\ ~mounted[s]
    /\ home[s] # 0 => provMounted[home[s]]
    /\ \E select \in SelectorsOf(home, s) :
        LET where == home[s]
            store == useContext(where)
            snap == getSnapshot(storeValue[store], select, NullCache, FreshOf(s, storeValue[store]))
        IN  IF store = EMPTY
            THEN /\ error' = [error EXCEPT ![s] = UsageError]
                 /\ lastCall' = NoCall
                 /\ UNCHANGED <<home, mounted, ctx, sel, snapshotRef, returned, unsubHeld,
                                selectCalls, newPubs>>
            ELSE /\ error' = [error EXCEPT ![s] = ""]
                 /\ mounted' = [mounted EXCEPT ![s] = TRUE]
                 /\ ctx' = [ctx EXCEPT ![s] = store]
                 /\ sel' = [sel EXCEPT ![s] = select]
                 /\ snapshotRef' = [snapshotRef EXCEPT ![s] = snap.cache]
                 /\ returned' = [returned EXCEPT ![s] = snap.ret]
                 /\ unsubHeld' = [unsubHeld EXCEPT ![s] = FALSE]
                 /\ selectCalls' = [selectCalls EXCEPT ![s] = Spy(0, snap.ran)]
                 /\ newPubs' = [newPubs EXCEPT ![s] = 0]
                 /\ lastCall' = NoCall
    /\ lastNotified' = NoCalls
    /\ lastRead' = NoReads
    /\ cancelled' = [cancelled EXCEPT ![s] = FALSE]
    /\ UNCHANGED <<home, provVars, storeVars, subscribed, needsRender, prevValue, tracked, rerenders>>
    /\ UNCHANGED <<optVars, eqVars, mainVars>>

\* The effect of useSyncExternalStore after the first commit:
\* store.subscribe(handleStoreChange), then one check of the snapshot for a
\* change made between the render and the subscription.
ConsumerSubscribe(s) ==
    /\ mounted[s]
    /\ ~subscribed[s]
    /\ LET st == ctx[s]
           snap == getSnapshot(storeValue[st], sel[s], snapshotRef[s], FreshOf(s, storeValue[st]))
       IN  /\ listeners' = [listeners EXCEPT ![st] = Store_subscribe(@, s)]
           /\ snapshotRef' = [snapshotRef EXCEPT ![s] = snap.cache]
           /\ needsRender' = [needsRender EXCEPT ![s] = @ \/ ~ObjectIs(snap.ret, returned[s])]
           /\ selectCalls' = [selectCalls EXCEPT ![s] = Spy(@, snap.ran)]
           /\ lastCall' = NoCall
    /\ subscribed' = [subscribed EXCEPT ![s] = TRUE]
    /\ unsubHeld' = [unsubHeld EXCEPT ![s] = TRUE]
    /\ lastNotified' = NoCalls
    /\ lastRead' = NoReads
    /\ UNCHANGED cancelled
    /\ UNCHANGED newPubs
    /\ UNCHANGED <<home, provVars, storeValue, mounted, ctx, sel, returned, error,
                   prevValue, tracked, rerenders>>
    /\ UNCHANGED <<optVars, eqVars, mainVars>>

\* store.subscribe called once more with the listener already registered, by
\* code running between two render passes.
Resubscribe(s) ==
    /\ mounted[s]
    /\ subscribed[s]
    /\ Idle
    /\ listeners' = [listeners EXCEPT ![ctx[s]] = Store_subscribe(@, s)]
    /\ lastCall' = [op |-> "resubscribe", s |-> s]
    /\ lastNotified' = NoCalls
    /\ lastRead' = NoReads
    /\ UNCHANGED cancelled
    /\ UNCHANGED <<selectCalls, newPubs>>
    /\ UNCHANGED <<home, provVars, storeValue, subVars, prevValue, tracked, rerenders>>
    /\ UNCHANGED <<optVars, eqVars, mainVars>>

\* A render of a mounted consumer, signalled by its listener or started by
\* the host for another reason: useStore runs again and returns getSnapshot().
ConsumerRender(s) ==
    /\ mounted[s]
    /\ LET snap == getSnapshot(storeValue[ctx[s]], sel[s], snapshotRef[s], FreshOf(s, storeValue[ctx[s]]))
       IN  /\ snapshotRef' = [snapshotRef EXCEPT ![s] = snap.cache]
           /\ returned' = [returned EXCEPT ![s] = snap.ret]
           /\ rerenders' = [rerenders EXCEPT ![s] =
                                IF needsRender[s] \/ ~ObjectIs(snap.ret, returned[s])
                                THEN @ + 1 ELSE @]
           /\ selectCalls' = [selectCalls EXCEPT ![s] = Spy(@, snap.ran)]
           /\ lastCall' = NoCall
    /\ needsRender' = [needsRender EXCEPT ![s] = FALSE]
    /\ error' = [error EXCEPT ![s] = ""]
    /\ lastNotified' = NoCalls
    /\ lastRead' = NoReads
    /\ UNCHANGED cancelled
    /\ UNCHANGED newPubs
    /\ UNCHANGED <<home, provVars, storeVars, mounted, ctx, sel, subscribed, unsubHeld,
                   prevValue, tracked>>
    /\ UNCHANGED <<optVars, eqVars, mainVars>>

\* A render of a mounted consumer in which the component passes useStore a
\* selector other than the one of its last render: the hook keeps its
\* snapshotRef, the new getSnapshot closure holds the new selector.
ConsumerReselect(s, select) ==
    /\ mounted[s]
    /\ select # sel[s]
    /\ LET snap == getSnapshot(storeValue[ctx[s]], select, snapshotRef[s], FreshOf(s, storeValue[ctx[s]]))
       IN  /\ snapshotRef' = [snapshotRef EXCEPT ![s] = snap.cache]
           /\ returned' = [returned EXCEPT ![s] = snap.ret]
           /\ rerenders' = [rerenders EXCEPT ![s] =
                                IF needsRender[s] \/ ~ObjectIs(snap.ret, returned[s])
                                THEN @ + 1 ELSE @]
           /\ selectCalls' = [selectCalls EXCEPT ![s] = Spy(@, snap.ran)]
           /\ lastCall' = NoCall
    /\ sel' = [sel EXCEPT ![s] = select]
    /\ needsRender' = [needsRender EXCEPT ![s] = FALSE]
    /\ error' = [error EXCEPT ![s] = ""]
    /\ lastNotified' = NoCalls
    /\ lastRead' = NoReads
    /\ UNCHANGED cancelled
    /\ UNCHANGED newPubs
    /\ UNCHANGED <<home, provVars, storeVars, mounted, ctx, subscribed, unsubHeld,
                   prevValue, tracked>>
    /\ UNCHANGED <<optVars, eqVars, mainVars>>

\* A removal that leaves the listeners registered.
UnsubscribeAll_none(ls, S) == ls

\* The hook state of the consumers in S is dropped and their listeners are
\* deregistered by the cleanup of useSyncExternalStore.
RECURSIVE UnsubscribeAll(_, _)
UnsubscribeAll(ls, S) ==
    IF S = {} THEN ls
    ELSE LET s == CHOOSE x \in S : TRUE
         IN  UnsubscribeAll(Store_unsubscribe(ls, s), S \ {s})

Teardown(S) ==
    /\ listeners' = [st \in DOMAIN listeners |->
                        UnsubscribeAll(listeners[st], {s \in S : subscribed[s] /\ ctx[s] = st})]
    /\ mounted' = [s \in Subs |-> IF s \in S THEN FALSE ELSE mounted[s]]
    /\ sel' = [s \in Subs |-> IF s \in S THEN NoSelect ELSE sel[s]]
    /\ subscribed' = [s \in Subs |-> IF s \in S THEN FALSE ELSE subscribed[s]]
    /\ needsRender' = [s \in Subs |-> IF s \in S THEN FALSE ELSE needsRender[s]]
    /\ snapshotRef' = [s \in Subs |-> IF s \in S THEN NullCache ELSE snapshotRef[s]]
    /\ returned' = [s \in Subs |-> IF s \in S THEN Undefined ELSE returned[s]]
    /\ tracked' = [s \in Subs |-> IF s \in S THEN FALSE ELSE tracked[s]]
    /\ rerenders' = [s \in Subs |-> IF s \in S THEN 0 ELSE rerenders[s]]
    /\ selectCalls' = [s \in Subs |-> IF s \in S THEN 0 ELSE selectCalls[s]]
    /\ newPubs' = [s \in Subs |-> IF s \in S THEN 0 ELSE newPubs[s]]

\* A consumer is removed from the tree.
ConsumerUnmount(s) ==
    /\ mounted[s]
    /\ Teardown({s})
    /\ lastCall' = NoCall
    /\ lastNotified' = NoCalls
    /\ lastRead' = NoReads
    /\ cancelled' = [cancelled EXCEPT ![s] = layoutPending[home[s]]]
    /\ UNCHANGED <<home, provVars, storeValue, ctx, error, unsubHeld, prevValue>>
    /\ UNCHANGED <<optVars, eqVars, mainVars>>

\* The unsubscribe function of a removed consumer is called once more, by
\* code running between two render passes.
UnsubscribeAgain(s) ==
    /\ ~mounted[s]
    /\ unsubHeld[s]
    /\ Idle
    /\ listeners' = [listeners EXCEPT ![ctx[s]] = Store_unsubscribe(@, s)]
    /\ lastCall' = [op |-> "unsubscribe", s |-> s]
    /\ lastNotified' = NoCalls
    /\ lastRead' = NoReads
    /\ UNCHANGED cancelled
    /\ UNCHANGED <<selectCalls, newPubs>>
    /\ UNCHANGED <<home, provVars, storeValue, subVars, prevValue, tracked, rerenders>>
    /\ UNCHANGED <<optVars, eqVars, mainVars>>

\* A getSnapshot closure that useStore built for a consumer since removed
\* is called once more, after the Provider of its store was removed, by code
\* running between two render passes: it reads store.get() of the store
\* object it holds.  Nothing on this path throws.
StaleRead(s) ==
    /\ keepsReaders
    /\ ~mounted[s]
    /\ unsubHeld[s]
    /\ ~provMounted[home[s]]
    /\ Idle
    /\ LET root == Store_get(storeValue, ctx[s])
           snap == getSnapshot(root, NoSelect, NullCache, FreshOf(s, root))
       IN  /\ returned' = [returned EXCEPT ![s] = snap.ret]
           /\ error' = [error EXCEPT ![s] = ""]
    /\ lastCall' = [op |-> "read", s |-> s]
    /\ lastNotified' = NoCalls
    /\ lastRead' = NoReads
    /\ UNCHANGED cancelled
    /\ UNCHANGED <<selectCalls, newPubs>>
    /\ UNCHANGED <<home, provVars, storeVars, mounted, ctx, sel, snapshotRef, subscribed,
                   unsubHeld, needsRender, prevValue, tracked, rerenders>>
    /\ UNCHANGED <<optVars, eqVars, mainVars>>

\* A Provider instance is removed from the tree, and with it the consumers
\* rendered under it; its effects no longer run.  Its hook cells are dropped;
\* the listener set of its Store stays reachable through the unsubscribe
\* functions handed out, and the Store keeps its value, which nothing can
\* read any more (it is dropped here) unless the host kept a reading closure.
ProviderUnmount(p) ==
    /\ provMounted[p]
    /\ Idle
    /\ Teardown({s \in Subs : mounted[s] /\ home[s] = p})
    /\ provMounted' = [provMounted EXCEPT ![p] = FALSE]
    /\ storeRef' = [storeRef EXCEPT ![p] = NullRef]
    /\ storesMade' = [storesMade EXCEPT ![p] = 0]
    /\ layoutPending' = [layoutPending EXCEPT ![p] = FALSE]
    /\ lastCall' = NoCall
    /\ lastNotified' = NoCalls
    /\ lastRead' = NoReads
    /\ cancelled' = NoneCancelled
    /\ hookState' = [hookState EXCEPT ![p] = NoHookState]
    /\ value' = [value EXCEPT ![p] = Undefined]
    /\ effectDeps' = [effectDeps EXCEPT ![p] = Undefined]
    /\ pubs' = [pubs EXCEPT ![p] = 0]
    /\ prevValue' = [prevValue EXCEPT ![StoreOf(p)] = Undefined]
    /\ storeValue' = IF keepsReaders THEN storeValue
                     ELSE [storeValue EXCEPT ![StoreOf(p)] = Undefined]
    /\ props' = [props EXCEPT ![p] = Undefined]
    /\ fnArg' = [fnArg EXCEPT ![p] = Undefined]
    /\ UNCHANGED <<home, hostOptions, keepsReaders, spied, ctx, error, unsubHeld>>
    /\ UNCHANGED <<eqVars, mainVars>>

InitEqualsIdle ==
    /\ eqA = Undefined
    /\ eqB = Undefined
    /\ eqResult = "none"

\* No second argument given to useStore.
NoOptions == [kind |-> "none", fn |-> ""]

NoEqualsCall ==
    [called |-> FALSE, fn |-> "", a |-> Undefined, b |-> Undefined, result |-> FALSE]

NoMemo == [deps |-> FALSE, val |-> Undefined]

InitMainIdle ==
    /\ mProvided = FALSE
    /\ mCount = 0
    /\ mPubs = 0
    /\ mValue = Undefined
    /\ mMounted = FALSE
    /\ mSelect = NoSelect
    /\ mOptions = NoOptions
    /\ mSeen = Undefined
    /\ mBlop = FALSE
    /\ mSelected = Undefined
    /\ mEffectPending = FALSE
    /\ mMemo = NoMemo
    /\ mReturned = Undefined
    /\ mError = ""
    /\ mLastEquals = NoEqualsCall

Init == (\E h \in Trees : InitStoreAt(h)) /\ InitEqualsIdle /\ InitMainIdle

Next ==
    \/ \E p \in Providers : ProviderMount(p)
    \/ \E p \in Providers : ProviderRender(p)
    \/ \E p \in Providers : ProviderCommit(p)
    \/ \E p \in Providers : ProviderUnmount(p)
    \/ \E s \in Subs : ConsumerMount(s)
    \/ \E s \in Subs : ConsumerSubscribe(s)
    \/ \E s \in Subs : Resubscribe(s)
    \/ \E s \in Subs : ConsumerRender(s)
    \/ \E s \in Subs : ConsumerUnmount(s)
    \/ \E s \in Subs : UnsubscribeAgain(s)

Spec == Init /\ [][Next]_vars

\* React runs the layout effects of a render in the commit of that render,
\* before anything else is rendered: a commit that is due is performed.
Fairness == \A p \in Providers : WF_vars(ProviderCommit(p))

SpecLive == Init /\ [][Next]_vars /\ Fairness

\* The tree of one Provider with one consumer below it and one consumer
\* outside, under a host that keeps the getSnapshot closures of removed
\* consumers and may call them after the Provider is gone.
InitStale == InitStoreWith(<<0, 1>>, OptionsSet, TRUE, FALSE) /\ InitEqualsIdle /\ InitMainIdle

NextStale ==
    \/ Next
    \/ \E s \in Subs : StaleRead(s)

SpecStale == InitStale /\ [][NextStale]_vars

\* The trees of the tests, two consumers under one Provider and one consumer
\* under a Provider with one outside, with selectors that count their calls
\* as the tests' selectSpy does.
InitSpy ==
    /\ \E h \in {<<1, 1>>, <<0, 1>>} : InitStoreWith(h, OptionsSet, FALSE, TRUE)
    /\ InitEqualsIdle
    /\ InitMainIdle

SpecSpy == InitSpy /\ [][Next]_vars

\* The tree of one consumer under a Provider and one outside, with counting
\* selectors, under a component that may pass useStore another selector at
\* any render.
InitReselect == InitStoreWith(<<0, 1>>, OptionsSet, FALSE, TRUE) /\ InitEqualsIdle /\ InitMainIdle

NextReselect ==
    \/ Next
    \/ \E s \in Subs : \E select \in SelectorsOf(home, s) : ConsumerReselect(s, select)

SpecReselect == InitReselect /\ [][NextReselect]_vars

\* The tree of one consumer under a Provider and one outside, the consumer
\* under the Provider showing the count, also as a Date.
InitDate == InitStoreWith(<<1, 0>>, OptionsSet, FALSE, FALSE) /\ InitEqualsIdle /\ InitMainIdle

SpecDate == InitDate /\ [][Next]_vars

\* The tree of one Provider with one consumer below it and one consumer
\* outside, under a host that passes its Providers no options, an object
\* with initialCount, or an object with initialCount and initialText, and
\* may pass another one at every render.
InitOptions == InitStoreWith(<<0, 1>>, OptionsGiven, FALSE, FALSE) /\ InitEqualsIdle /\ InitMainIdle

SpecOptions == InitOptions /\ [][Next]_vars

(***************************************************************************)
(* _equals on its own: SpecEquals applies it to every pair of a bounded    *)
(* set of values.  The two operands are built from allocations of their    *)
(* own (refs 4 and 5), may share the nested objects N1 and N2, and may be  *)
(* one and the same reference.                                             *)
(***************************************************************************)
N1 == Obj(<<2, 0>>, <<"k">>, <<Num(0)>>)
N2 == Obj(<<3, 0>>, <<"k">>, <<Num(0)>>)

Atoms == {Undefined, Null, Num(0), Num(1), Str("a"), Fn(<<1, 0>>)}
Elems == {Undefined, Num(0), Num(1), N1, N2}
KeyLists == {<<>>, <<"x">>, <<"y">>, <<"x", "y">>, <<"y", "x">>}

ItemLists(n) == [1..n -> Elems]

\* The values allocated under identity r: arrays up to MaxArrLen, plain
\* records over the keys x and y, instances of Date and Map, instances of a
\* class Point with one own field.
ValuesAt(r) ==
    Atoms \cup {N1, N2}
    \cup {Arr(<<r, 0>>, items) : items \in UNION {ItemLists(n) : n \in 0..MaxArrLen}}
    \cup UNION {{Obj(<<r, 0>>, keys, items) : items \in ItemLists(Len(keys))} : keys \in KeyLists}
    \cup {Instance(<<r, 0>>, ctor, n) : ctor \in {"Date", "Map"}, n \in {0, 1}}
    \cup {Val("object", <<r, 0>>, 0, "", "Point", <<"x">>, items) : items \in ItemLists(1)}

InitEquals ==
    /\ InitStoreAt(<<1, 1>>)
    /\ InitMainIdle
    /\ eqA \in ValuesAt(4)
    /\ eqB \in ValuesAt(5) \cup {eqA}
    /\ eqResult = "none"

\* One call _equals(eqA, eqB).
Compare ==
    /\ eqResult = "none"
    /\ eqResult' = IF _equals(eqA, eqB) THEN "true" ELSE "false"
    /\ UNCHANGED <<eqA, eqB, home, optVars, provVars, storeVars, subVars, histVars, mainVars>>

NextEquals == Compare

SpecEquals == InitEquals /\ [][NextEquals]_vars

(***************************************************************************)
(* src/main.ts: the Provider hands fn(props.options) to Context.Provider,  *)
(* and useStore(select, options) keeps the projection in a ref that an     *)
(* effect refreshes when the context value changes.                        *)
(***************************************************************************)
\* _checkEquality(a, b) of main.ts.  (A null operand next to an object makes
\* a.prototype throw; the selectors below return numbers and arrays.)
RECURSIVE _checkEquality(_, _)
_checkEquality(a, b) ==
    IF ObjectIs(a, b) THEN TRUE
    ELSE IF Typeof(a) # Typeof(b) THEN FALSE
    ELSE IF IsArray(a)
    THEN IF ~IsArray(b) THEN FALSE
         ELSE IF Len(a.items) # Len(b.items) THEN FALSE
         ELSE \A i \in 1..Len(a.items) : _checkEquality(a.items[i], b.items[i])
    ELSE IF Typeof(a) = "object"
    THEN IF ~ObjectIs(Get(a, "prototype"), Get(b, "prototype")) THEN FALSE
         ELSE IF a.ctor = "Map" THEN FALSE
         ELSE IF a.ctor = "Set" THEN FALSE
         ELSE IF Len(ObjectKeys(a)) # Len(ObjectKeys(b)) THEN FALSE
         ELSE \A i \in 1..Len(ObjectKeys(a)) :
                 _checkEquality(a.items[i], Get(b, ObjectKeys(a)[i]))
    ELSE TRUE

\* The functions a caller hands to the hook: never equal, always equal,
\* identity, and "the count did not grow" (equal when next <= previous).
EqualsFns == {"never", "always", "is", "notGrown"}

\* fn(a, b) for a function of EqualsFns; "default" is _checkEquality.
ApplyEquals(fn, a, b) ==
    CASE fn = "never" -> FALSE
      [] fn = "always" -> TRUE
      [] fn = "is" -> ObjectIs(a, b)
      [] fn = "notGrown" -> b.n <= a.n
      [] OTHER -> _checkEquality(a, b)

\* The arguments of useStore: a selector or none, and as second argument
\* nothing, an options object { equals }, or - as the README's example
\* passes it - the function itself.
HookArgs ==
    {<<NoSelect, NoOptions>>, <<"count", NoOptions>>, <<"countInc", NoOptions>>}
    \cup {<<"count", [kind |-> k, fn |-> f]>> : k \in {"object", "function"}, f \in EqualsFns}
    \cup {<<"countInc", [kind |-> "object", fn |-> f]>> : f \in {"never", "is"}}

\* options?.equals ?? _checkEquality
EqualsOf(options) == IF options.kind = "object" THEN options.fn ELSE "default"

\* The README's reading: update when the function returns a truthy value.
ShouldUpdate_truthy(call) == call.result

\* if (!equals(selected.current, next)) { selected.current = next; setBlop(...) }
ShouldUpdate(call) == ~call.result

\* The hook calling equals with its arguments swapped.
CallEquals_swapped(fn, current, next) ==
    [called |-> TRUE, fn |-> fn, a |-> next, b |-> current,
     result |-> ApplyEquals(fn, next, current)]

\* equals(selected.current, next)
CallEquals(fn, current, next) ==
    [called |-> TRUE, fn |-> fn, a |-> current, b |-> next,
     result |-> ApplyEquals(fn, current, next)]

\* The identity of the array a selector call allocates: calls made while
\* rendering and calls made by the effect, each once per context value.
RenderRef(v) == <<200, v.ref[2]>>
EffectRef(v) == <<300, v.ref[2]>>

InitMain ==
    /\ InitStoreAt(<<1, 1>>)
    /\ InitEqualsIdle
    /\ InitMainIdle

\* The consumer has rendered the current context value, its effect has run
\* and the re-render the effect asked for has happened.
MainSettled ==
    mMounted => /\ ~mEffectPending
                /\ ObjectIs(mSeen, mValue)
                /\ (mSelect # NoSelect => mMemo.deps = mBlop)

\* Provider of main.ts, first render: value = fn(props.options).
MainProviderMount ==
    /\ ~mProvided
    /\ mProvided' = TRUE
    /\ mCount' = 0
    /\ mPubs' = 1
    /\ mValue' = Producer(1, [count |-> 0, text |-> "hello"], <<1, 1>>)
    /\ mLastEquals' = NoEqualsCall
    /\ UNCHANGED <<mMounted, mSelect, mOptions, mSeen, mBlop, mSelected, mEffectPending,
                   mMemo, mReturned, mError>>
    /\ UNCHANGED <<home, optVars, provVars, storeVars, subVars, histVars, eqVars>>

\* A re-evaluation of the Provider, after increment() or for another reason:
\* fn returns a new object, which becomes the context value.
MainProviderRender ==
    /\ mProvided
    /\ MainSettled
    /\ mPubs < MaxPubs + 1
    /\ \E ev \in {"increment", "rerender"} :
        LET c == IF ev = "increment" THEN mCount + 1 ELSE mCount
        IN  /\ mCount' = c
            /\ mValue' = Producer(1, [count |-> c, text |-> "hello"], <<1, mPubs + 1>>)
    /\ mPubs' = mPubs + 1
    /\ mLastEquals' = NoEqualsCall
    /\ UNCHANGED <<mProvided, mMounted, mSelect, mOptions, mSeen, mBlop, mSelected,
                   mEffectPending, mMemo, mReturned, mError>>
    /\ UNCHANGED <<home, optVars, provVars, storeVars, subVars, histVars, eqVars>>

\* First render of a component calling useStore(select, options): under the
\* Provider, or with no Provider in the tree, where the hook throws.
MainConsumerMount ==
    /\ ~mMounted
    /\ \E args \in HookArgs :
        LET select == args[1]
            options == args[2]
            first == Select(select, mValue, RenderRef(mValue))
        IN  IF ~mProvided
            THEN /\ mError' = UsageError
                 /\ UNCHANGED <<mMounted, mSelect, mOptions, mSeen, mBlop, mSelected,
                                mEffectPending, mMemo, mReturned>>
            ELSE /\ mError' = ""
                 /\ mMounted' = TRUE
                 /\ mSelect' = select
                 /\ mOptions' = options
                 /\ mSeen' = mValue
                 /\ mBlop' = FALSE
                 /\ IF select = NoSelect
                    THEN /\ mReturned' = mValue
                         /\ UNCHANGED <<mSelected, mEffectPending, mMemo>>
                    ELSE /\ mSelected' = first
                         /\ mEffectPending' = TRUE
                         /\ mMemo' = [deps |-> FALSE, val |-> first]
                         /\ mReturned' = first
    /\ mLastEquals' = NoEqualsCall
    /\ UNCHANGED <<mProvided, mCount, mPubs, mValue>>
    /\ UNCHANGED <<home, optVars, provVars, storeVars, subVars, histVars, eqVars>>

\* A later render of the consumer: the hook reads the context, the effect is
\* due when [value] changed, and useMemo(() => selected.current, [blop])
\* recomputes when blop changed.
MainConsumerRender ==
    /\ mMounted
    /\ ~mEffectPending
    /\ mSeen' = mValue
    /\ IF mSelect = NoSelect
       THEN /\ mReturned' = mValue
            /\ UNCHANGED <<mEffectPending, mMemo>>
       ELSE LET memo == IF mMemo.deps # mBlop
                        THEN [deps |-> mBlop, val |-> mSelected]
                        ELSE mMemo
            IN  /\ mEffectPending' = ~ObjectIs(mSeen, mValue)
                /\ mMemo' = memo
                /\ mReturned' = memo.val
    /\ mLastEquals' = NoEqualsCall
    /\ UNCHANGED <<mProvided, mCount, mPubs, mValue, mMounted, mSelect, mOptions, mBlop,
                   mSelected, mError>>
    /\ UNCHANGED <<home, optVars, provVars, storeVars, subVars, histVars, eqVars>>

\* The effect with deps [value] (select is set: without one the hook
\* returned before useEffect): next = select(value), and unless
\* equals(selected.current, next) the ref takes next and blop flips.
MainEffect ==
    /\ mMounted
    /\ mEffectPending
    /\ LET next == Select(mSelect, mValue, EffectRef(mValue))
           call == CallEquals(EqualsOf(mOptions), mSelected, next)
       IN  /\ mLastEquals' = call
           /\ IF ShouldUpdate(call)
              THEN /\ mSelected' = next
                   /\ mBlop' = ~mBlop
              ELSE UNCHANGED <<mSelected, mBlop>>
    /\ mEffectPending' = FALSE
    /\ UNCHANGED <<mProvided, mCount, mPubs, mValue, mMounted, mSelect, mOptions, mSeen,
                   mMemo, mReturned, mError>>
    /\ UNCHANGED <<home, optVars, provVars, storeVars, subVars, histVars, eqVars>>

\* The hook cells of a consumer that is not in the tree.
MainDropConsumer ==
    /\ mMounted' = FALSE
    /\ mSelect' = NoSelect
    /\ mOptions' = NoOptions
    /\ mSeen' = Undefined
    /\ mBlop' = FALSE
    /\ mSelected' = Undefined
    /\ mEffectPending' = FALSE
    /\ mMemo' = NoMemo
    /\ mReturned' = Undefined
    /\ mLastEquals' = NoEqualsCall

\* The consumer is removed from the tree.
MainConsumerUnmount ==
    /\ mMounted
    /\ MainDropConsumer
    /\ UNCHANGED <<mProvided, mCount, mPubs, mValue, mError>>
    /\ UNCHANGED <<home, optVars, provVars, storeVars, subVars, histVars, eqVars>>

\* The Provider is removed from the tree, and the consumer with it.
MainProviderUnmount ==
    /\ mProvided
    /\ MainSettled
    /\ MainDropConsumer
    /\ mProvided' = FALSE
    /\ mCount' = 0
    /\ mPubs' = 0
    /\ mValue' = Undefined
    /\ UNCHANGED mError
    /\ UNCHANGED <<home, optVars, provVars, storeVars, subVars, histVars, eqVars>>

NextMain ==
    \/ MainProviderMount
    \/ MainProviderRender
    \/ MainProviderUnmount
    \/ MainConsumerMount
    \/ MainConsumerRender
    \/ MainEffect
    \/ MainConsumerUnmount

SpecMain == InitMain /\ [][NextMain]_vars

(***************************************************************************)
(* Properties of the stator.ts store (Spec).                               *)
(***************************************************************************)
StoreProjection(s, root) == Select(sel[s], root, FreshOf(s, root))

\* The consumer has subscribed and has rendered after the last commit of its
\* Provider.
Settled(s) ==
    /\ mounted[s]
    /\ subscribed[s]
    /\ ~needsRender[s]
    /\ ~layoutPending[home[s]]

\* The store of consumer s went from one snapshot object to another, both
\* seen by s.
SawPublication(s) ==
    /\ mounted[s]
    /\ tracked[s]
    /\ prevValue[ctx[s]].t = "object"
    /\ ~ObjectIs(prevValue[ctx[s]], storeValue[ctx[s]])

\* Two projections hold the same contents: one reference, or the same
\* elements (the same fields) by reference.
SameContents(x, y) ==
    \/ ObjectIs(x, y)
    \/ /\ x.t = y.t
       /\ x.t \in {"array", "object"}
       /\ x.keys = y.keys
       /\ Len(x.items) = Len(y.items)
       /\ \A i \in 1..Len(x.items) : ObjectIs(x.items[i], y.items[i])

ProjectionChanged(s) ==
    ~SameContents(StoreProjection(s, prevValue[ctx[s]]), StoreProjection(s, storeValue[ctx[s]]))

ArraySelectors == {"countInc", "textUpd", "updText"}

\* C1: a consumer calling useStore() with no selector keeps no cache, and
\* once it has rendered after the N-th notification the value it returned is
\* the N-th snapshot itself, the object the store holds and the Provider's
\* producer returned last.
C1_NoSelectorPassthrough ==
    \A s \in Subs :
        (mounted[s] /\ sel[s] = NoSelect) =>
            /\ snapshotRef[s] = NullCache
            /\ Settled(s) =>
                /\ returned[s] = storeValue[ctx[s]]
                /\ returned[s] = value[home[s]]
                /\ returned[s].ref = <<home[s], pubs[home[s]]>>

\* A no-selector consumer has rendered the third snapshot of its Provider
\* after being notified of the second and of the third.
C1_Witness ==
    \E s \in Subs :
        /\ mounted[s] /\ sel[s] = NoSelect /\ Settled(s)
        /\ tracked[s]
        /\ rerenders[s] = 1
        /\ pubs[home[s]] = 3
        /\ returned[s].ref = <<home[s], 3>>

\* C2: for a consumer with a selector, the reference returned by a render
\* differs from the one returned before, and the cached projection differs
\* from the one cached before, only if _equals reports the projection of the
\* snapshot read unequal to the previous one; and when the elements of an
\* array projection are the same by reference in two successive snapshots, no
\* re-render is signalled and no render returns a new reference.
C2_SelectorSuppression ==
    [][\A s \in Subs :
        /\ (mounted[s] /\ mounted'[s] /\ sel[s] # NoSelect) =>
            /\ ~ObjectIs(returned'[s], returned[s]) =>
                   ~_equals(StoreProjection(s, storeValue'[ctx[s]]), returned[s])
            /\ (snapshotRef[s].set /\ ~ObjectIs(snapshotRef'[s].selected, snapshotRef[s].selected)) =>
                   ~_equals(StoreProjection(s, storeValue'[ctx[s]]), snapshotRef[s].selected)
        /\ (SawPublication(s)' /\ sel'[s] \in ArraySelectors /\ ~ProjectionChanged(s)') =>
            /\ ~needsRender'[s]
            /\ rerenders'[s] = 0
      ]_vars

\* The listener of an array-selector consumer has read a new snapshot whose
\* projection has the old elements: the cache holds the new snapshot, the
\* consumer still returns the array built from the first one.
C2_Witness ==
    \E s \in Subs :
        /\ SawPublication(s) /\ Settled(s)
        /\ sel[s] \in ArraySelectors
        /\ ~ProjectionChanged(s)
        /\ snapshotRef[s].set
        /\ ObjectIs(snapshotRef[s].root, storeValue[ctx[s]])
        /\ returned[s].ref = FreshOf(s, prevValue[ctx[s]])
        /\ rerenders[s] = 0

\* C3: for a consumer whose selector returns an array, a publication that
\* changes an element of the projection by reference makes the consumer
\* re-render once, never twice, and once it has the consumer returns a new
\* array holding the elements of the new snapshot.
C3_SelectorDelivery ==
    \A s \in Subs :
        (SawPublication(s) /\ sel[s] \in ArraySelectors /\ ProjectionChanged(s)) =>
            /\ rerenders[s] <= 1
            /\ needsRender[s] => rerenders[s] = 0
            /\ Settled(s) =>
                /\ rerenders[s] = 1
                /\ returned[s].ref = FreshOf(s, storeValue[ctx[s]])
                /\ returned[s].items = StoreProjection(s, storeValue[ctx[s]]).items

\* A consumer selecting [updateText, text] has re-rendered once after the
\* publication that changed the second element.
C3_Witness ==
    \E s \in Subs :
        /\ SawPublication(s) /\ Settled(s)
        /\ sel[s] = "updText"
        /\ ObjectIs(StoreProjection(s, prevValue[ctx[s]]).items[1],
                    StoreProjection(s, storeValue[ctx[s]]).items[1])
        /\ ~ObjectIs(StoreProjection(s, prevValue[ctx[s]]).items[2],
                     StoreProjection(s, storeValue[ctx[s]]).items[2])
        /\ rerenders[s] = 1
        /\ returned[s].items[2] = Str("updated")

\* C4: with two selector consumers under one Provider, once a publication
\* has been delivered each consumer whose projection changed has re-rendered
\* exactly once and holds the new projection, each consumer whose projection
\* did not change has not re-rendered, and a consumer selecting the count
\* reads 1 after the publication that took the count from 0 to 1.
C4_OnlyChangedRerender ==
    (/\ home = <<1, 1>>
     /\ \A s \in Subs : SawPublication(s) /\ Settled(s) /\ sel[s] # NoSelect) =>
        \A s \in Subs :
            /\ ProjectionChanged(s) =>
                /\ rerenders[s] = 1
                /\ SameContents(returned[s], StoreProjection(s, storeValue[ctx[s]]))
            /\ ~ProjectionChanged(s) =>
                /\ rerenders[s] = 0
                /\ SameContents(returned[s], StoreProjection(s, prevValue[ctx[s]]))
            /\ (/\ sel[s] = "count"
                /\ Get(prevValue[ctx[s]], "count") = Num(0)
                /\ Get(storeValue[ctx[s]], "count") = Num(1)) => returned[s] = Num(1)

\* The test's tree after increment(): the count consumer re-rendered once
\* and reads 1, the increment consumer did not re-render.
C4_Witness ==
    /\ home = <<1, 1>>
    /\ \A s \in Subs : SawPublication(s) /\ Settled(s)
    /\ sel = <<"count", "increment">>
    /\ Get(prevValue[1], "count") = Num(0)
    /\ Get(storeValue[1], "count") = Num(1)
    /\ rerenders = <<1, 0>>
    /\ returned[1] = Num(1)

\* C5: a re-evaluation of one Provider instance, and the commit that
\* follows it, leave the store of every other instance as it was - its
\* snapshot and its listener set - and call no listener of a consumer
\* mounted under another instance, whose cache and pending re-render stay
\* as they were.
C5_ProviderIsolation ==
    [][\A p \in Providers :
        (ProviderRender(p) \/ ProviderCommit(p)) =>
            /\ \A q \in Providers \ {p} :
                (provMounted[q] /\ q \in SeqRange(home)) =>
                    /\ storeValue'[StoreOf(q)] = storeValue[StoreOf(q)]
                    /\ storeValue'[StoreOf(q)] = value[q]
                    /\ listeners'[StoreOf(q)] = listeners[StoreOf(q)]
            /\ \A s \in Subs :
                (mounted[s] /\ home[s] # p) =>
                    /\ lastNotified'[s] = 0
                    /\ storeValue'[ctx[s]] = storeValue[ctx[s]]
                    /\ snapshotRef'[s] = snapshotRef[s]
                    /\ needsRender'[s] = needsRender[s]
      ]_vars

\* Two sibling Providers, a consumer under each: the first Provider has
\* published again and its consumer's listener has just been called, while
\* the consumer under the second still holds the first snapshot of its own.
C5_Witness ==
    /\ home = <<1, 2>>
    /\ \A s \in Subs : mounted[s] /\ subscribed[s]
    /\ pubs[1] >= 2
    /\ lastNotified = <<1, 0>>
    /\ needsRender = <<TRUE, FALSE>>
    /\ storeValue[2].ref = <<2, 1>>
    /\ snapshotRef[2].root.ref = <<2, 1>>

\* C6: a call of useStore, with or without a selector, by a component that
\* has no Provider above it throws the usage error and does nothing else: the
\* component does not mount, no listener is registered, no cache is written
\* (no selector ran); and it does so whether an earlier call failed or the
\* call of another component succeeded.
C6_OutsideProviderThrows ==
    [][\A s \in Subs :
        (home[s] = 0 /\ ConsumerMount(s)) =>
            /\ error'[s] = UsageError
            /\ ~mounted'[s]
            /\ ~subscribed'[s]
            /\ listeners' = listeners
            /\ snapshotRef' = snapshotRef
            /\ returned' = returned
            /\ needsRender' = needsRender
      ]_vars

\* The hook has thrown for the component outside every Provider, after the
\* component under the Provider had mounted and subscribed.
C6_Witness ==
    \E s \in Subs :
        /\ home[s] = 0
        /\ error[s] = UsageError
        /\ ~mounted[s]
        /\ snapshotRef[s] = NullCache
        /\ \E o \in Subs \ {s} : mounted[o] /\ subscribed[o] /\ o \in SeqRange(listeners[ctx[o]])

NoDuplicates(q) == \A i, j \in 1..Len(q) : q[i] = q[j] => i = j

\* C10: a listener is in a listener set at most once, also after a second
\* subscribe; after the unsubscribe function has been called again - the
\* Provider mounted or not - the listener is not in the set; the set of a
\* store holds only the listeners of consumers in the tree that subscribed
\* to it; and notify() calls each listener once and never the listener of a
\* consumer that was removed.
C10_IdempotentRegistration ==
    /\ \A st \in Providers :
        /\ NoDuplicates(listeners[st])
        /\ \A s \in SeqRange(listeners[st]) : mounted[s] /\ subscribed[s] /\ ctx[s] = st
    /\ \A s \in Subs :
        /\ (mounted[s] /\ subscribed[s]) => s \in SeqRange(listeners[ctx[s]])
        /\ lastNotified[s] <= 1
        /\ lastNotified[s] = 1 => mounted[s] /\ subscribed[s]
    /\ lastCall.op = "resubscribe" =>
        Len(SelectSeq(listeners[ctx[lastCall.s]], LAMBDA x : x = lastCall.s)) = 1
    /\ lastCall.op = "unsubscribe" =>
        \A st \in Providers : lastCall.s \notin SeqRange(listeners[st])

\* The unsubscribe function of a removed consumer has just been called once
\* more after its Provider was unmounted.
C10_Witness ==
    /\ lastCall.op = "unsubscribe"
    /\ ~mounted[lastCall.s]
    /\ ~provMounted[home[lastCall.s]]
    /\ lastCall.s \notin SeqRange(listeners[ctx[lastCall.s]])

(***************************************************************************)
(* Properties of the main.ts hook (SpecMain).                              *)
(***************************************************************************)
\* What the effect of the step hands to equals as the next projection.
MainNext == Select(mSelect, mValue, EffectRef(mValue))

\* The effect stored the next projection and flipped blop, so that the
\* consumer renders again and returns it.
MainUpdated ==
    /\ mSelected' = MainNext
    /\ mBlop' # mBlop
    /\ mMemo'.deps # mBlop'

\* The effect left the projection and blop alone: no re-render follows.
MainIgnored ==
    /\ mSelected' = mSelected
    /\ mBlop' = mBlop
    /\ mMemo'.deps = mBlop'

IsPlainRecord(v) == v.t = "object" /\ v.ctor = "Object"

\* Equality as stated for the default equality function: one reference; or
\* two arrays of one length, equal element by element by reference; or two
\* plain records with one key set, equal key by key by reference.
StatedEqual(a, b) ==
    \/ ObjectIs(a, b)
    \/ /\ IsArray(a) /\ IsArray(b)
       /\ Len(a.items) = Len(b.items)
       /\ \A i \in 1..Len(a.items) : ObjectIs(a.items[i], b.items[i])
    \/ /\ IsPlainRecord(a) /\ IsPlainRecord(b)
       /\ SeqRange(a.keys) = SeqRange(b.keys)
       /\ \A k \in SeqRange(a.keys) : ObjectIs(Get(a, k), Get(b, k))

\* C9: for every pair (a, b) of the value set, _equals(a, b) is true exactly
\* when a and b are one reference, or arrays of equal length with pairwise
\* reference-equal elements, or plain records with the same key set and
\* reference-equal values per key; nested objects that are distinct but
\* structurally equal make the pair unequal.
C9_DefaultEquality ==
    eqResult # "none" => ((eqResult = "true") <=> StatedEqual(eqA, eqB))

(***************************************************************************)
(* Properties of the Provider's evaluation (SpecOptions).                  *)
(***************************************************************************)
\* C11: at every evaluation of a Provider (its mount and each re-render) the
\* producer fn receives the very options value the Provider was rendered
\* with, by reference and unmodified; the value it returns is the snapshot
\* the store holds after the evaluation; at the mount that value is built
\* from the options (their initialCount, else 0; their initialText, else
\* "hello").
C11_OptionsPassThrough ==
    [][\A p \in Providers :
        (ProviderMount(p) \/ ProviderRender(p)) =>
            /\ props'[p] \in hostOptions
            /\ fnArg'[p] = props'[p]
            /\ ObjectIs(storeValue'[StoreOf(p)], value'[p])
            /\ value'[p] = Producer(p, hookState'[p], value'[p].ref)
            /\ ProviderMount(p) => hookState'[p] = InitialHookState(props'[p])
      ]_vars

\* The Provider was mounted with { initialCount: 1, initialText:
\* "initialized" }: the producer got that object and the store holds
\* count 1 and text "initialized".
C11_Witness ==
    /\ provMounted[1]
    /\ props[1].t = "object"
    /\ HasOwn(props[1], "initialText")
    /\ fnArg[1] = props[1]
    /\ Get(storeValue[StoreOf(1)], "count") = Num(1)
    /\ Get(storeValue[StoreOf(1)], "text") = Str("initialized")
    /\ ObjectIs(storeValue[StoreOf(1)], value[1])


(***************************************************************************)
(* Properties of a publication: update, then notify (Spec).                *)
(***************************************************************************)
\* C12: a publication has two phases in this order.  The re-evaluation of a
\* Provider that produces a new snapshot puts it in the store and calls no
\* listener; the listeners are called at the commit that follows, and each
\* of them then reads the snapshot that caused the notification or a later
\* one of the same Provider, never the snapshot it replaced.
C12_UpdateBeforeNotify ==
    [][\A p \in Providers :
        /\ (ProviderRender(p) /\ layoutPending'[p]) =>
              /\ ObjectIs(storeValue'[StoreOf(p)], value'[p])
              /\ lastNotified' = NoCalls
              /\ snapshotRef' = snapshotRef
              /\ needsRender' = needsRender
        /\ ProviderCommit(p) =>
              \A s \in Subs : lastNotified'[s] > 0 =>
                  /\ lastRead'[s].t = "object"
                  /\ lastRead'[s].ref[1] = value[p].ref[1]
                  /\ lastRead'[s].ref[2] >= value[p].ref[2]
                  /\ ~ObjectIs(lastRead'[s], effectDeps[p])
      ]_vars

\* The second snapshot of Provider 1 replaced the first, and at the commit
\* the listener of consumer 1 read the second.
C12_Witness ==
    /\ lastNotified[1] = 1
    /\ prevValue[StoreOf(1)].ref = <<1, 1>>
    /\ value[1].ref = <<1, 2>>
    /\ ObjectIs(lastRead[1], value[1])
    /\ ~layoutPending[1]


\* A notification of Provider p is due: its last evaluation produced a
\* snapshot that is not the one its layout effect last ran for.
NotificationDue(p) == provMounted[p] /\ layoutPending[p]

\* The notification of Provider p has just been made: the effect has run for
\* the snapshot the store holds, and the listener of every consumer
\* registered with the store was called in it.
Notified(p) ==
    /\ provMounted[p]
    /\ ~layoutPending[p]
    /\ ObjectIs(effectDeps[p], value[p])
    /\ ObjectIs(storeValue[StoreOf(p)], value[p])
    /\ \A s \in SeqRange(listeners[StoreOf(p)]) : lastNotified[s] = 1

\* C13 (SpecLive): whenever an evaluation of a Provider has produced a new
\* snapshot, a notification of its store follows in which the listener of
\* every consumer registered at that time is called: no listener is skipped
\* and no new snapshot stays without its notification.
C13_PublicationNotified ==
    \A p \in Providers : NotificationDue(p) ~> Notified(p)

\* Both consumers of Provider 1 were registered when the notification of its
\* second snapshot was made, and both listeners were called.
C13_Witness ==
    /\ Notified(1)
    /\ listeners[StoreOf(1)] = <<1, 2>>
    /\ lastNotified = <<1, 1>>
    /\ value[1].ref = <<1, 2>>


(***************************************************************************)
(* Properties of a subscriber's registration (Spec).                       *)
(***************************************************************************)
\* How many entries of the listener collection ls are the listener l.
Registrations(ls, l) == Len(SelectSeq(ls, LAMBDA x : x = l))

C16_DestroyedStoreDetected ==
    lastCall.op = "read" =>
        /\ error[lastCall.s] = UsageError
        /\ returned[lastCall.s] = Undefined


(***************************************************************************)
(* Who writes what (Spec).                                                 *)
(***************************************************************************)
\* The step is an operation of Provider p: its creation of the store, an
\* update, the notification, or the removal that discards the store.
ProviderOperation(p) ==
    ProviderMount(p) \/ ProviderRender(p) \/ ProviderCommit(p) \/ ProviderUnmount(p)

\* A read of consumer s (a call of its getSnapshot) leaves the value and the
\* listener set of every store and the cache of every other consumer as they
\* were.
ReadFrame(s) ==
    /\ storeValue' = storeValue
    /\ \A o \in Subs \ {s} : snapshotRef'[o] = snapshotRef[o]

\* C17, as stated: the value and the listener set of a store change only in
\* a step that is a Provider operation (create, update, notify, and the
\* discarding of the store with its Provider), and a read
\* of a consumer changes neither of them nor the cache of another consumer.
C17_ProviderIsOnlyWriter ==
    [][/\ \A st \in Providers :
            (storeValue'[st] # storeValue[st] \/ listeners'[st] # listeners[st]) =>
                \E p \in Providers : StoreOf(p) = st /\ ProviderOperation(p)
       /\ \A s \in Subs :
            (ConsumerMount(s) \/ ConsumerRender(s)) => ReadFrame(s) /\ listeners' = listeners
      ]_vars

\* C17, amended: the value of a store changes only when its Provider is
\* evaluated (created at the mount, updated at a re-render) or removed; the
\* listener set changes only when the store is created, when a consumer
\* registers its listener after its first render, and when consumers are
\* removed or their unsubscribe function is called; the notification changes
\* neither.  A read by a consumer - at its mount, at a render, at its
\* subscription, or by its listener in a notification - leaves the store's
\* value and every other consumer's cache unchanged, and a read at a mount
\* or a render leaves the listener sets unchanged as well.
C17_WritersOfStore ==
    [][/\ \A p \in Providers :
            /\ storeValue'[StoreOf(p)] # storeValue[StoreOf(p)] =>
                  ProviderMount(p) \/ ProviderRender(p) \/ ProviderUnmount(p)
            /\ listeners'[StoreOf(p)] # listeners[StoreOf(p)] =>
                  \/ ProviderMount(p)
                  \/ ProviderUnmount(p)
                  \/ \E s \in Subs : ctx[s] = StoreOf(p) /\
                        (ConsumerSubscribe(s) \/ ConsumerUnmount(s) \/ UnsubscribeAgain(s))
            /\ ProviderCommit(p) =>
                  /\ storeValue' = storeValue
                  /\ listeners' = listeners
                  /\ \A s \in Subs \ SeqRange(listeners[StoreOf(p)]) :
                        snapshotRef'[s] = snapshotRef[s]
       /\ \A s \in Subs :
            /\ (ConsumerMount(s) \/ ConsumerRender(s)) => ReadFrame(s) /\ listeners' = listeners
            /\ ConsumerSubscribe(s) => ReadFrame(s)
      ]_vars

\* Both consumers cached the projection of the first snapshot; after the
\* Provider's update consumer 1 rendered and read the second snapshot: its
\* cache holds the second, the cache of consumer 2 still the first, and
\* consumer 1 is in the listener set by its own registration.
C17_Witness ==
    /\ mounted[1] /\ mounted[2]
    /\ sel[1] # NoSelect /\ sel[2] # NoSelect
    /\ layoutPending[1]
    /\ storeValue[StoreOf(1)].ref = <<1, 2>>
    /\ snapshotRef[1].root.ref = <<1, 2>>
    /\ snapshotRef[2].root.ref = <<1, 1>>
    /\ listeners[StoreOf(1)] = <<1, 2>>


(***************************************************************************)
(* Properties of the selector cache (SpecSpy).                             *)
(***************************************************************************)
\* The cache of selector consumer s holds the snapshot of its store.
CacheCurrent(s) == snapshotRef[s].set /\ ObjectIs(snapshotRef[s].root, storeValue[ctx[s]])

\* The selector of every selector consumer has run once for each snapshot
\* the consumer has read: once more than the new snapshots its store got
\* since the consumer's mount when its cache holds the current snapshot, and
\* exactly that often when the newest snapshot has not been read yet; once
\* deliveries are done the cache holds the current snapshot.
SelectorCalls ==
    \A s \in Subs : (mounted[s] /\ sel[s] # NoSelect) =>
        /\ snapshotRef[s].set
        /\ CacheCurrent(s) => selectCalls[s] = newPubs[s] + 1
        /\ ~CacheCurrent(s) =>
              /\ ObjectIs(snapshotRef[s].root, prevValue[ctx[s]])
              /\ selectCalls[s] = newPubs[s]
        /\ Settled(s) => CacheCurrent(s)

\* C18: the selector of a consumer runs only in a read that finds in the
\* store a snapshot that is not the one in the consumer's cache; a read of
\* the cached snapshot runs no selector, changes no cache and returns the
\* cached projection itself; so a consumer whose store got k new snapshots
\* since its mount has run its selector k + 1 times once they are delivered,
\* whether or not a publication changed what the consumer returns.
C18_SelectorOncePerSnapshot ==
    [][/\ SelectorCalls'
       /\ \A s \in Subs :
            /\ (ConsumerRender(s) /\ sel[s] # NoSelect /\ CacheCurrent(s)) =>
                  /\ selectCalls'[s] = selectCalls[s]
                  /\ snapshotRef'[s] = snapshotRef[s]
                  /\ ObjectIs(returned'[s], snapshotRef[s].selected)
            /\ (mounted[s] /\ mounted'[s] /\ selectCalls'[s] # selectCalls[s]) =>
                  /\ selectCalls'[s] = selectCalls[s] + 1
                  /\ ~CacheCurrent(s)
                  /\ ~ObjectIs(snapshotRef'[s].root, snapshotRef[s].root)
      ]_vars

\* The consumer selecting [text, updateText] has read three snapshots, the
\* last two differing from the first in the count only: its selector ran
\* three times, it never re-rendered for them, and it still returns the
\* array made from the first snapshot.
C18_Witness ==
    /\ spied
    /\ sel[2] = "textUpd"
    /\ Settled(2)
    /\ newPubs[2] = 2
    /\ selectCalls[2] = 3
    /\ Get(storeValue[ctx[2]], "count") = Num(2)
    /\ returned[2].ref[2] = 1
    /\ snapshotRef[2].root.ref[2] = 3


(***************************************************************************)
(* Properties of the Provider's store (Spec).                              *)
(***************************************************************************)
\* C19: while a Provider instance is mounted its ref holds one Store object,
\* the only one the instance has constructed, and that store holds the
\* object the producer returned at the instance's most recent evaluation -
\* an object, never null or undefined.
C19_OneStoreOneSnapshot ==
    \A p \in Providers : provMounted[p] =>
        /\ storeRef[p] = StoreOf(p)
        /\ storesMade[p] = 1
        /\ storeValue[storeRef[p]].t = "object"
        /\ storeValue[storeRef[p]] # Null
        /\ ObjectIs(storeValue[storeRef[p]], value[p])
        /\ value[p] = Producer(p, hookState[p], <<p, pubs[p]>>)

\* Provider 1 is at its third snapshot, held by the store it constructed at
\* its mount, in which both consumers are still registered.
C19_Witness ==
    /\ provMounted[1]
    /\ pubs[1] = 3
    /\ storesMade[1] = 1
    /\ storeValue[storeRef[1]].ref = <<1, 3>>
    /\ listeners[storeRef[1]] = <<1, 2>>


(***************************************************************************)
(* Property of what a selector consumer holds (SpecDate).                  *)
(***************************************************************************)
\* Two values have the same content: the same primitive, the same function,
\* or two arrays or objects of one class with the same internal content, the
\* same keys and the same value by reference in every element or field.
ContentEqual(x, y) ==
    \/ ObjectIs(x, y)
    \/ /\ x.t = y.t
       /\ x.t \in {"array", "object"}
       /\ x.ctor = y.ctor
       /\ x.n = y.n
       /\ x.keys = y.keys
       /\ Len(x.items) = Len(y.items)
       /\ \A i \in 1..Len(x.items) : ObjectIs(x.items[i], y.items[i])

\* C20: once the publications are delivered and the consumer has rendered,
\* what a selector consumer returns is equal under _equals to its selector's
\* projection of the snapshot the store holds, and has the same content as
\* that projection.
C20_ProjectionFaithful ==
    \A s \in Subs : (Settled(s) /\ sel[s] # NoSelect) =>
        /\ _equals(returned[s], StoreProjection(s, storeValue[ctx[s]]))
        /\ ContentEqual(returned[s], StoreProjection(s, storeValue[ctx[s]]))


(***************************************************************************)
(* Property of a render with another selector (SpecReselect).              *)
(***************************************************************************)
\* The step is a render of consumer s with a selector other than the one of
\* its last render.
Reselected(s) == \E select \in SelectorsOf(home, s) : ConsumerReselect(s, select)

\* C21: a render of a selector consumer with another selector, while the
\* store holds the snapshot in the consumer's cache, returns the projection
\* cached from the earlier selector, runs no selector and leaves the cache
\* as it is; a selector runs only in a read that finds a snapshot other than
\* the cached one, and that read applies the selector the consumer then has.
C21_CacheKeyedBySnapshot ==
    [][\A s \in Subs :
        /\ (Reselected(s) /\ sel[s] # NoSelect /\ sel'[s] # NoSelect /\ CacheCurrent(s)) =>
              /\ ObjectIs(returned'[s], snapshotRef[s].selected)
              /\ snapshotRef'[s] = snapshotRef[s]
              /\ selectCalls'[s] = selectCalls[s]
        /\ (mounted[s] /\ mounted'[s] /\ selectCalls'[s] # selectCalls[s]) =>
              /\ selectCalls'[s] = selectCalls[s] + 1
              /\ ~CacheCurrent(s)
              /\ ObjectIs(snapshotRef'[s].root, storeValue'[ctx[s]])
              /\ \/ snapshotRef'[s].selected =
                    Select(sel'[s], storeValue'[ctx[s]], FreshOf(s, storeValue'[ctx[s]]))
                 \/ /\ snapshotRef'[s].selected = snapshotRef[s].selected
                    /\ _equals(Select(sel'[s], storeValue'[ctx[s]], FreshOf(s, storeValue'[ctx[s]])),
                               snapshotRef[s].selected)
      ]_vars

\* The consumer was mounted selecting increment and then rendered with the
\* selector [text, updateText] on the same snapshot: it still returns the
\* function increment, and only one selector call was made.
C21_Witness ==
    /\ spied
    /\ mounted[2]
    /\ sel[2] = "textUpd"
    /\ CacheCurrent(2)
    /\ returned[2].t = "function"
    /\ ObjectIs(returned[2], Get(storeValue[ctx[2]], "increment"))
    /\ selectCalls[2] = 1


====
